---- MODULE Spec2Model ----
(***************************************************************************)
(* Model of command/plugin_manager.go: the PluginManager (Discover,        *)
(* LoadAll, LoadUsed, StoreUsed, ConfigureCore) and the Plugin handle      *)
(* (Load, CalcMD5, Used, the usage-marking factory).                       *)
(*                                                                         *)
(* Plugin values live in a heap of objects (the code works on *Plugin);    *)
(* m.plugins is a sequence of heap addresses plus a nil flag.  The two     *)
(* goroutine passes (LoadAll's Load pass, StoreUsed's CalcMD5 pass) are    *)
(* modelled worker by worker, one step per blocking point.                 *)
(***************************************************************************)
EXTENDS Integers, Sequences, FiniteSets, TLC

\* ---------------------------------------------------------------- bounds
\* Number of Plugin objects one process run may allocate.
MaxObjs == 4
\* Largest value runtime.NumCPU() takes in the model.
MaxCPU == 2
\* Number of callers that may be inside a capability factory at once.
MaxCallers == 2
\* Number of manager calls and file changes in one behaviour.
MaxOps == 3

\* ------------------------------------------------------- program constants
usedPluginVersion == 1

\* Keys of m.PluginMap, the built-in registry.
PluginMap == {"build", "deploy"}

\* The value osext.Executable() returns, and a second executable that only
\* a manifest can name.
ExePath == "/bin/otto"
ExtPath == "/opt/otto-ext"
Paths == {ExePath, ExtPath}

\* Content of an executable file: absent, or one of two byte contents.
Missing == "missing"
Contents == {"v1", "v2"}
\* What the environment may make of each path.
FileStates(p) == IF p = ExePath THEN {Missing} \cup Contents ELSE {Missing}

\* hex.EncodeToString(md5(content)): 32 hex digits, never empty.
HexMD5(c) == IF c = "v1" THEN "6654c734ccab8f440ff0825eb443dc7f"
                         ELSE "1b267619c4812cc46ee281747884ca50"
NoMD5 == ""

\* app.Tuple keys, and the Tuples a plugin's Meta() reports: what the
\* process started as `path args...` serves is decided by its arguments.
Tuples == {"T1", "T2", "T3"}
MetaOf(args) == IF args = <<"plugin-builtin", "build">> THEN <<"T1", "T2">>
                                                         ELSE <<"T1">>
\* A nil *app.Meta.
NilMeta == <<"nil">>

\* app.Factory values: <<object, generation>> is the closure the g-th
\* successful Load of object h created; NoFactory is an absent entry and
\* ExtFactory a factory the host installed itself.
NoFactory == <<0, 0>>
ExtFactory == <<0, 1>>

Ids == 1..MaxObjs

VARIABLES
  numCPU,       \* runtime.NumCPU()
  testingMode,  \* package variable testingMode
  fs,           \* executable files: path -> Missing or content
  file,         \* the used-plugin manifest file on disk
  heap,         \* Plugin objects: address -> fields
  alloc,        \* number of Plugin objects allocated in this run
  plugins,      \* m.plugins as a sequence of addresses
  pluginsNil,   \* m.plugins == nil
  coreApps,     \* core.Apps: tuple -> factory
  coreNil,      \* core.Apps == nil
  pc,           \* the manager's caller: "idle", "LoadAll", "StoreUsed", "crashed"
  result,       \* [op, err] of the manager call that began or returned last
  w,            \* goroutine of the running pass, per Plugin object
  permits,      \* free permits of sema
  lock,         \* merrLock / errLock held
  merr,         \* LoadAll's merr: the Plugins whose error was appended, in order
  seen,         \* the merr a goroutine read for its append, per Plugin object
  err,          \* StoreUsed's outer err (line 200)
  used,         \* StoreUsed's local slice `plugins` (lines 192-197)
  inApp,        \* callers inside client.App() of a factory, per Plugin object
  attempts,     \* history: Load / CalcMD5 calls started in this pass, per object
  hashFailed,   \* history: a CalcMD5 of this pass returned an error
  loadFailed,   \* history: the objects whose Load of this pass returned an error
  fileAtCall,   \* history: the manifest file when StoreUsed was called
  invoked,      \* history: factory invoked since the object's last Load finished
  everInvoked,  \* history: factory of the object invoked in this process
  stored,       \* history: what the StoreUsed that wrote `file` had as used
  ops           \* history: manager calls and file changes so far

vars == <<numCPU, testingMode, fs, file, heap, alloc, plugins, pluginsNil,
          coreApps, coreNil, pc, result, w, permits, lock, merr, err, used,
          inApp, attempts, hashFailed, fileAtCall, invoked, everInvoked,
          stored, ops, seen, loadFailed>>

\* ------------------------------------------------------------ Plugin type
\* A Plugin as a struct literal leaves it: only Path, Args and MD5 set.
\* App counts the successful Loads (0: App == nil).
NewPlugin(path, args, md5) ==
  [Path |-> path, Args |-> args, MD5 |-> md5,
   App |-> 0, AppMeta |-> NilMeta, used |-> FALSE]

\* The zero Plugin, for heap cells not yet allocated.
ZeroPlugin == NewPlugin("", <<>>, NoMD5)

\* Plugin.Used
Used(p) == p.used

Range(s) == {s[i] : i \in 1..Len(s)}


\* ------------------------------------------------------------ Plugin.Load
\* What the plugin process does when Load talks to it: exec or handshake
\* fails (Client), the App request fails, Meta fails, or all three succeed.
\* A file that is not there cannot be executed.
LoadOutcomes(content) ==
  IF content = Missing THEN {"client"} ELSE {"client", "app", "meta", "ok"}

\* A Load that drops what an earlier Load installed when it fails.
PluginLoadClearsOnFailure(p, outcome, meta) ==
  IF outcome = "ok"
    THEN [p EXCEPT !.AppMeta = meta, !.used = FALSE, !.App = @ + 1]
    ELSE [p EXCEPT !.AppMeta = NilMeta, !.App = 0]

\* A Load that resets used before it talks to the plugin.
PluginLoadResetsFirst(p, outcome, meta) ==
  CASE outcome = "client" -> [p EXCEPT !.used = FALSE]
    [] outcome = "app"    -> [p EXCEPT !.used = FALSE]
    [] outcome = "meta"   -> [p EXCEPT !.AppMeta = NilMeta, !.used = FALSE]
    [] OTHER              -> [p EXCEPT !.AppMeta = meta,
                                       !.used = FALSE,
                                       !.App = @ + 1]

\* Plugin.Load on p, the plugin answering with `outcome` and, when Meta
\* succeeds, with the tuples `meta`.  Line 108 assigns p.AppMeta before the
\* error test, so a failing Meta stores its nil result.  MD5 is not read.
PluginLoad(p, outcome, meta) ==
  CASE outcome = "client" -> p
    [] outcome = "app"    -> p
    [] outcome = "meta"   -> [p EXCEPT !.AppMeta = NilMeta]
    [] OTHER              -> [p EXCEPT !.AppMeta = meta,
                                       !.used = FALSE,
                                       !.App = @ + 1]

\* A factory that only delegates to client.App().
FactoryCallNoMark(p) == p

\* The factory Load installs (lines 115-118): its first statement.
FactoryCall(p) == [p EXCEPT !.used = TRUE]

\* p.App as a table entry.
FactoryOf(H, h) == IF H[h].App = 0 THEN NoFactory ELSE <<h, H[h].App>>

\* --------------------------------------------------------- Plugin.CalcMD5
\* os.Open fails on a missing file; io.Copy may fail while reading.
CalcOutcomes(content) ==
  IF content = Missing THEN {"open"} ELSE {"read", "ok"}

CalcMD5(p, content, outcome) ==
  IF outcome = "ok" THEN [p EXCEPT !.MD5 = HexMD5(content)] ELSE p

\* ------------------------------------------------------- manifest as JSON
\* json encoding of a *Plugin: the three tagged fields; App and AppMeta are
\* tagged "-" and used is unexported.
MarshalPlugin(p) == [path |-> p.Path, args |-> p.Args, md5 |-> p.MD5]

\* A decoding that restores the used flag the entry was stored for.
UnmarshalPluginUsed(e) ==
  [Path |-> e.path, Args |-> e.args, MD5 |-> e.md5,
   App |-> 0, AppMeta |-> <<"nil">>, used |-> TRUE]

\* json decoding of one element of "plugins" into a new Plugin.
UnmarshalPlugin(e) == NewPlugin(e.path, e.args, e.md5)

NoFile == [kind |-> "none", version |-> 0, null |-> TRUE, plugins |-> <<>>]
Garbage == [kind |-> "garbage", version |-> 0, null |-> TRUE, plugins |-> <<>>]

\* enc.Encode(&usedPluginWrapper{Version: ..., Plugins: plugins}) where
\* plugins is the non-nil slice of line 192.
MarshalWrapper(version, H, ps) ==
  [kind |-> "json", version |-> version, null |-> FALSE,
   plugins |-> [i \in 1..Len(ps) |-> MarshalPlugin(H[ps[i]])]]

\* Manifests somebody else may have left at the path.
EntryBuild == [path |-> ExePath, args |-> <<"plugin-builtin", "build">>,
               md5 |-> HexMD5("v1")]
EntryExt == [path |-> ExtPath, args |-> <<>>, md5 |-> NoMD5]
EnvFiles ==
  {NoFile, Garbage} \cup
  {[kind |-> "json", version |-> usedPluginVersion + 1, null |-> FALSE,
    plugins |-> <<EntryBuild>>],
   [kind |-> "json", version |-> usedPluginVersion, null |-> FALSE,
    plugins |-> <<EntryExt, EntryBuild>>]} \cup
  {[kind |-> "json", version |-> usedPluginVersion, null |-> TRUE,
    plugins |-> <<>>]}

\* ------------------------------------------------------------------ heap
\* The heap after allocating one Plugin per element of ps (Plugin values).
AllocHeap(H, A, ps) ==
  [h \in Ids |-> IF h > A /\ h <= A + Len(ps) THEN ps[h - A] ELSE H[h]]

\* The addresses of those Plugins, in order.
NewAddrs(A, n) == [i \in 1..n |-> A + i]

\* --------------------------------------------------------------- Discover
Perms(S) == {s \in [1..Cardinality(S) -> S] : Range(s) = S}

\* A Discover that visits the registry in testing mode too.
DiscoverOrdersAlways(testing) == Perms(PluginMap)

\* Orders in which `for k := range m.PluginMap` may visit the keys; nothing
\* is visited in testing mode (line 160).
DiscoverOrders(testing) == IF testing THEN {<<>>} ELSE Perms(PluginMap)

\* Lines 168-173: the Plugins Discover builds for a visiting order.
DiscoverResult(order) ==
  [i \in 1..Len(order) |->
     NewPlugin(ExePath, <<"plugin-builtin", order[i]>>, NoMD5)]

\* A Discover that adds what it found to the list it had.
DiscoverStoreAppend(old, found) == old \o found

\* Line 182: m.plugins = result.
DiscoverStore(old, found) == found

\* ------------------------------------------------------------- StoreUsed
\* A StoreUsed that keeps every Plugin.
UsedPluginsUnfiltered(H, ps) == ps

\* Lines 192-197: the sub-sequence of ps whose Plugin is used.
UsedPlugins(H, ps) == SelectSeq(ps, LAMBDA h : Used(H[h]))

\* Lines 212-217 on a CalcMD5 error.  `err := p.CalcMD5()` declares a new
\* err in the scope of the if statement, and line 215 assigns to that one:
\* the err of line 200, which line 221 tests, keeps its value.
CalcMD5Failed(outerErr) == outerErr

\* --------------------------------------------------------------- LoadAll
\* Lines 290-294: merr = multierror.Append(merr, ...) under merrLock.
MerrAppend(m, h) == Append(m, h)

\* --------------------------------------------------------- ConfigureCore
\* An install that keeps an entry that is already there.
SetTuplesKeep(apps, meta, f) ==
  [t \in Tuples |-> IF t \in Range(meta) /\ apps[t] = NoFactory
                      THEN f ELSE apps[t]]

\* Line 143 for every tuple of meta.
SetTuples(apps, meta, f) ==
  [t \in Tuples |-> IF t \in Range(meta) THEN f ELSE apps[t]]

\* Lines 141-145 from the i-th Plugin on.  p.AppMeta.Tuples on a nil
\* AppMeta is a nil-pointer dereference: the loop panics there, with the
\* entries of the Plugins before it already installed.
RECURSIVE Install(_, _, _, _)
Install(H, ps, i, apps) ==
  IF i > Len(ps) THEN [apps |-> apps, panic |-> FALSE]
  ELSE IF H[ps[i]].AppMeta = NilMeta THEN [apps |-> apps, panic |-> TRUE]
  ELSE Install(H, ps, i + 1,
               SetTuples(apps, H[ps[i]].AppMeta, FactoryOf(H, ps[i])))


\* ------------------------------------------------------------------ Init
\* A process that has just started: no Plugin yet, m.plugins nil, and a
\* CoreConfig whose Apps is nil.
NoApps == [t \in Tuples |-> NoFactory]
\* The CoreConfig values the host passes to ConfigureCore: Apps nil, or
\* Apps holding the host's own factory under every tuple.
Cores == {[nil |-> TRUE, apps |-> NoApps],
          [nil |-> FALSE, apps |-> [t \in Tuples |-> ExtFactory]]}
NoResult == [op |-> "none", err |-> "nil"]
\* `file` is not the output of a StoreUsed that returned nil.
NotStored == [ok |-> FALSE, pairs |-> <<>>]
\* The (path, args) pairs of the Plugins ps.
Pairs(H, ps) == [i \in 1..Len(ps) |-> <<H[ps[i]].Path, H[ps[i]].Args>>]

FreshProcess ==
  /\ heap = [h \in Ids |-> ZeroPlugin]
  /\ alloc = 0
  /\ plugins = <<>>
  /\ pluginsNil = TRUE
  /\ coreApps = NoApps
  /\ coreNil = TRUE
  /\ pc = "idle"
  /\ result = NoResult
  /\ w = [h \in Ids |-> "none"]
  /\ permits = 0
  /\ lock = FALSE
  /\ merr = <<>>
  /\ seen = [h \in Ids |-> <<>>]
  /\ loadFailed = {}
  /\ err = "nil"
  /\ used = <<>>
  /\ inApp = [h \in Ids |-> 0]
  /\ attempts = [h \in Ids |-> 0]
  /\ hashFailed = FALSE
  /\ fileAtCall = NoFile
  /\ invoked = {}
  /\ everInvoked = {}

Init ==
  /\ numCPU \in 1..MaxCPU
  /\ testingMode \in BOOLEAN
  /\ fs = [p \in Paths |-> IF p = ExePath THEN "v1" ELSE Missing]
  /\ file = NoFile
  /\ FreshProcess
  /\ stored = NotStored
  /\ ops = 0

\* Variables no manager call, worker or caller writes.
Environment == <<numCPU, testingMode, fs>>
\* One more operation, while the behaviour has operations left.
CountOp == ops < MaxOps /\ ops' = ops + 1
\* No caller is inside a factory: the manager is called, and the files
\* change, between the phases in which the host uses the plugins.
Quiet == \A h \in Ids : inApp[h] = 0
\* The state of the running pass.
PassVars == <<w, permits, lock, merr, attempts, seen, loadFailed>>
StoreVars == <<err, used, hashFailed, fileAtCall>>
CoreVars == <<coreApps, coreNil>>
CallerVars == <<inApp, invoked, everInvoked>>
ManagerVars == <<heap, alloc, plugins, pluginsNil>>

\* ------------------------------------------------- the goroutine passes
\* Lines 277-297 and 200-219: a fresh semaphore of NumCPU permits, a fresh
\* lock, and one goroutine per Plugin of ps, each about to call Acquire.
BeginPass(ps) ==
  /\ w' = [h \in Ids |-> IF h \in Range(ps) THEN "waiting" ELSE "none"]
  /\ permits' = numCPU
  /\ lock' = FALSE
  /\ merr' = <<>>
  /\ attempts' = [h \in Ids |-> 0]
  /\ seen' = [h \in Ids |-> <<>>]
  /\ loadFailed' = {}

\* The call returns: its goroutines, semaphore, lock and locals are gone.
EndPass ==
  /\ w' = [h \in Ids |-> "none"]
  /\ permits' = 0
  /\ lock' = FALSE
  /\ merr' = <<>>
  /\ attempts' = [h \in Ids |-> 0]
  /\ seen' = [h \in Ids |-> <<>>]
  /\ loadFailed' = {}

\* semaphore.Acquire: takes a permit when one is free, blocks otherwise.
SemaCanAcquire(n) == n > 0
SemaAcquire(n) == n - 1
\* semaphore.Release: gives the permit back.
SemaRelease(n) == n + 1

\* A goroutine that returns without giving its permit back.
DeferredReleaseDropped(n) == n

\* `defer sema.Release()` of lines 287 and 210 runs when the goroutine
\* returns, whichever way it returns.
DeferredRelease(n) == SemaRelease(n)

\* A goroutine that starts its work without calling Acquire.
MayStartWorkUnguarded(n) == TRUE

\* Lines 286 and 209: the goroutine may go on to its work once Acquire
\* returns.
MayStartWork(n) == SemaCanAcquire(n)

\* sema.Acquire() returns for the goroutine of h, which calls Load or
\* CalcMD5 next.
Acquire(h) ==
  /\ UNCHANGED <<ops, stored>>
  /\ pc \in {"LoadAll", "StoreUsed"}
  /\ w[h] = "waiting"
  /\ MayStartWork(permits)
  /\ permits' = SemaAcquire(permits)
  /\ w' = [w EXCEPT ![h] = "running"]
  /\ attempts' = [attempts EXCEPT ![h] = @ + 1]
  /\ UNCHANGED <<Environment, file, ManagerVars, CoreVars, pc, result, lock,
                 merr, seen, loadFailed, StoreVars, CallerVars>>

\* plugin.Load() of line 289 returns.  Without error the deferred Release
\* and Done run; with an error the goroutine goes for merrLock first.
LoadReturns(h) ==
  /\ UNCHANGED <<ops, stored>>
  /\ pc = "LoadAll"
  /\ w[h] = "running"
  /\ \E outcome \in LoadOutcomes(fs[heap[h].Path]) :
       /\ heap' = [heap EXCEPT ![h] = PluginLoad(@, outcome, MetaOf(@.Args))]
       /\ IF outcome = "ok"
            THEN /\ w' = [w EXCEPT ![h] = "done"]
                 /\ permits' = DeferredRelease(permits)
                 /\ invoked' = invoked \ {h}
                 /\ UNCHANGED loadFailed
            ELSE /\ w' = [w EXCEPT ![h] = "failed"]
                 /\ loadFailed' = loadFailed \cup {h}
                 /\ UNCHANGED <<permits, invoked>>
  /\ UNCHANGED <<Environment, file, alloc, plugins, pluginsNil, CoreVars, pc,
                 result, lock, merr, seen, attempts, StoreVars, inApp,
                 everInvoked>>

\* p.CalcMD5() of line 212 returns.
CalcMD5Returns(h) ==
  /\ UNCHANGED <<ops, stored>>
  /\ pc = "StoreUsed"
  /\ w[h] = "running"
  /\ \E outcome \in CalcOutcomes(fs[heap[h].Path]) :
       /\ heap' = [heap EXCEPT ![h] = CalcMD5(@, fs[heap[h].Path], outcome)]
       /\ IF outcome = "ok"
            THEN /\ w' = [w EXCEPT ![h] = "done"]
                 /\ permits' = DeferredRelease(permits)
                 /\ UNCHANGED hashFailed
            ELSE /\ w' = [w EXCEPT ![h] = "failed"]
                 /\ hashFailed' = TRUE
                 /\ UNCHANGED permits
  /\ UNCHANGED <<Environment, file, alloc, plugins, pluginsNil, CoreVars, pc,
                 result, lock, merr, seen, loadFailed, attempts, err, used,
                 fileAtCall, CallerVars>>

\* A Lock that never blocks.
MayLockUnguarded(l) == TRUE

\* sync.Mutex.Lock returns once the mutex is free.
MayLock(l) == ~l

\* merrLock.Lock() / errLock.Lock() of lines 290 and 213 returns, and the
\* goroutine reads the accumulator it is about to append to (the first
\* argument of multierror.Append in line 292).
Lock(h) ==
  /\ UNCHANGED <<ops, stored>>
  /\ pc \in {"LoadAll", "StoreUsed"}
  /\ w[h] = "failed"
  /\ MayLock(lock)
  /\ lock' = TRUE
  /\ seen' = [seen EXCEPT ![h] = merr]
  /\ w' = [w EXCEPT ![h] = "locked"]
  /\ UNCHANGED <<Environment, file, ManagerVars, CoreVars, pc, result,
                 permits, merr, loadFailed, attempts, StoreVars, CallerVars>>

\* The assignment of lines 292 and 215 (the accumulator read plus this
\* goroutine's error), then the deferred Unlock, Release and Done.
AppendError(h) ==
  /\ UNCHANGED <<ops, stored>>
  /\ pc \in {"LoadAll", "StoreUsed"}
  /\ w[h] = "locked"
  /\ IF pc = "LoadAll"
       THEN merr' = MerrAppend(seen[h], h) /\ UNCHANGED err
       ELSE err' = CalcMD5Failed(err) /\ UNCHANGED merr
  /\ seen' = [seen EXCEPT ![h] = <<>>]
  /\ lock' = FALSE
  /\ permits' = DeferredRelease(permits)
  /\ w' = [w EXCEPT ![h] = "done"]
  /\ UNCHANGED <<Environment, file, ManagerVars, CoreVars, pc, result,
                 attempts, loadFailed, used, hashFailed, fileAtCall,
                 CallerVars>>

\* A Wait that returns as soon as one goroutine is done.
AllDoneEarly == \E h \in Ids : w[h] = "done"

\* wg.Wait() returns once every goroutine has called Done.
AllDone == \A h \in Ids : w[h] \in {"none", "done"}


\* ------------------------------------------------------ PluginManager calls
\* Discover (lines 157-185) on a manager whose m.plugins is ps (nil when
\* psNil) and whose heap is H with A objects allocated, as part of the
\* call `op`: osext.Executable() fails and
\* nothing is stored, or the Plugins of some visiting order replace
\* m.plugins; with `load` the caller is LoadAll, which goes on to its pass
\* over the new list.
DiscoverFrom(op, ps, psNil, H, A, load) ==
  \/ /\ ~testingMode
     /\ result' = [op |-> op, err |-> "exe"]
     /\ pc' = "idle"
     /\ heap' = H
     /\ alloc' = A
     /\ plugins' = ps
     /\ pluginsNil' = psNil
     /\ UNCHANGED PassVars
  \/ \E order \in DiscoverOrders(testingMode) :
       /\ A + Len(order) <= MaxObjs
       /\ heap' = AllocHeap(H, A, DiscoverResult(order))
       /\ alloc' = A + Len(order)
       /\ plugins' = DiscoverStore(ps, NewAddrs(A, Len(order)))
       /\ pluginsNil' = FALSE
       /\ IF load
            THEN /\ result' = [op |-> op, err |-> "pending"]
                 /\ pc' = "LoadAll"
                 /\ BeginPass(DiscoverStore(ps, NewAddrs(A, Len(order))))
            ELSE /\ result' = [op |-> op, err |-> "nil"]
                 /\ pc' = "idle"
                 /\ UNCHANGED PassVars

\* PluginManager.Discover
Discover ==
  /\ CountOp
  /\ UNCHANGED stored
  /\ Quiet
  /\ pc = "idle"
  /\ DiscoverFrom("Discover", plugins, pluginsNil, heap, alloc, FALSE)
  /\ UNCHANGED <<Environment, file, CoreVars, StoreVars, CallerVars>>

\* A LoadAll that discovers whatever m.plugins holds.
LoadAllFromAlwaysDiscover(op, ps, psNil, H, A) ==
  DiscoverFrom(op, ps, psNil, H, A, TRUE)

\* LoadAll (lines 268-297, up to wg.Wait) as part of the call `op`, on a
\* manager whose m.plugins is ps (nil when psNil) and whose heap is H.
LoadAllFrom(op, ps, psNil, H, A) ==
  IF psNil
    THEN DiscoverFrom(op, ps, psNil, H, A, TRUE)
    ELSE /\ heap' = H
         /\ alloc' = A
         /\ plugins' = ps
         /\ pluginsNil' = FALSE
         /\ result' = [op |-> op, err |-> "pending"]
         /\ pc' = "LoadAll"
         /\ BeginPass(ps)

\* PluginManager.LoadAll is called.
LoadAll ==
  /\ CountOp
  /\ UNCHANGED stored
  /\ Quiet
  /\ pc = "idle"
  /\ LoadAllFrom("LoadAll", plugins, pluginsNil, heap, alloc)
  /\ UNCHANGED <<Environment, file, CoreVars, StoreVars, CallerVars>>

\* Lines 300-302: wg.Wait() is over and LoadAll (and a LoadUsed that called
\* it) returns merr.
LoadAllReturns ==
  /\ UNCHANGED <<ops, stored>>
  /\ pc = "LoadAll"
  /\ AllDone
  /\ pc' = "idle"
  /\ result' = [result EXCEPT !.err = IF merr = <<>> THEN "nil" ELSE "multi"]
  /\ EndPass
  /\ UNCHANGED <<Environment, file, ManagerVars, CoreVars, StoreVars,
                 CallerVars>>

\* A gate that lets the next version through.
VersionTooNewOffByOne(v) == v > usedPluginVersion + 1

\* Line 255: the manifest is newer than this build reads.
VersionTooNew(v) == v > usedPluginVersion

\* A LoadUsed that tests the error of os.Open only.
ReadFailsOnlyOnOpen(f) == f.kind = "none"

\* Lines 242-253: os.Open fails when there is no file, Decode when the
\* file does not hold a JSON document.
ReadFails(f) == f.kind # "json"

\* PluginManager.LoadUsed is called: lines 242-264.
LoadUsed ==
  /\ CountOp
  /\ UNCHANGED stored
  /\ Quiet
  /\ pc = "idle"
  /\ IF ReadFails(file) \/ VersionTooNew(file.version)
       THEN /\ result' = [op |-> "LoadUsed",
                          err |-> CASE file.kind = "none"    -> "open"
                                    [] file.kind = "garbage" -> "parse"
                                    [] OTHER                 -> "version"]
            /\ UNCHANGED <<ManagerVars, pc, PassVars>>
       ELSE LET ps == [i \in 1..Len(file.plugins) |->
                         UnmarshalPlugin(file.plugins[i])]
            IN /\ alloc + Len(ps) <= MaxObjs
               /\ LoadAllFrom("LoadUsed", NewAddrs(alloc, Len(ps)), file.null,
                              AllocHeap(heap, alloc, ps), alloc + Len(ps))
  /\ UNCHANGED <<Environment, file, CoreVars, StoreVars, CallerVars>>

\* PluginManager.StoreUsed is called: lines 191-219.
StoreUsed ==
  /\ CountOp
  /\ UNCHANGED stored
  /\ Quiet
  /\ pc = "idle"
  /\ used' = UsedPlugins(heap, plugins)
  /\ err' = "nil"
  /\ hashFailed' = FALSE
  /\ fileAtCall' = file
  /\ result' = [op |-> "StoreUsed", err |-> "pending"]
  /\ pc' = "StoreUsed"
  /\ BeginPass(UsedPlugins(heap, plugins))
  /\ UNCHANGED <<Environment, file, ManagerVars, CoreVars, CallerVars>>

\* Lines 220-236: wg.Wait() is over; err is tested, then the file is
\* created and the wrapper encoded into it.  os.Create may fail and leave
\* the path alone; Encode may fail after Create has truncated the file.
StoreUsedReturns ==
  /\ UNCHANGED ops
  /\ pc = "StoreUsed"
  /\ AllDone
  /\ pc' = "idle"
  /\ IF err # "nil"
       THEN /\ result' = [result EXCEPT !.err = err]
            /\ UNCHANGED <<file, stored>>
       ELSE \/ /\ result' = [result EXCEPT !.err = "nil"]
               /\ file' = MarshalWrapper(usedPluginVersion, heap, used)
               /\ stored' = [ok |-> TRUE, pairs |-> Pairs(heap, used)]
            \/ /\ result' = [result EXCEPT !.err = "create"]
               /\ UNCHANGED <<file, stored>>
            \/ /\ result' = [result EXCEPT !.err = "encode"]
               /\ file' = Garbage
               /\ stored' = NotStored
  /\ EndPass
  /\ used' = <<>>
  /\ err' = "nil"
  /\ hashFailed' = FALSE
  /\ fileAtCall' = NoFile
  /\ UNCHANGED <<Environment, ManagerVars, CoreVars, CallerVars>>

\* PluginManager.ConfigureCore(core): a nil table is made first (lines
\* 137-139), then the loop runs; a panic ends the process with what was
\* installed.  coreApps is the table of the core passed last.
ConfigureCore(core) ==
  /\ CountOp
  /\ UNCHANGED stored
  /\ Quiet
  /\ pc = "idle"
  /\ LET r == Install(heap, plugins, 1, core.apps)
     IN /\ coreApps' = r.apps
        /\ coreNil' = FALSE
        /\ pc' = IF r.panic THEN "crashed" ELSE "idle"
        /\ result' = [op |-> "ConfigureCore",
                      err |-> IF r.panic THEN "panic" ELSE "nil"]
  /\ UNCHANGED <<Environment, file, ManagerVars, PassVars, StoreVars,
                 CallerVars>>

\* --------------------------------------------------------------- callers
RECURSIVE Sum(_, _)
Sum(f, n) == IF n = 0 THEN 0 ELSE f[n] + Sum(f, n - 1)
InFlight == Sum(inApp, MaxObjs)

\* A caller invokes the factory p.App of a loaded Plugin: used is set and
\* the caller is inside client.App().  Factories are invoked while no
\* manager call is running (the comment of lines 123-125).
Invoke(h) ==
  /\ UNCHANGED <<ops, stored>>
  /\ pc = "idle"
  /\ h <= alloc
  /\ heap[h].App > 0
  /\ InFlight < MaxCallers
  /\ heap' = [heap EXCEPT ![h] = FactoryCall(@)]
  /\ inApp' = [inApp EXCEPT ![h] = @ + 1]
  /\ invoked' = invoked \cup {h}
  /\ everInvoked' = everInvoked \cup {h}
  /\ result' = NoResult
  /\ UNCHANGED <<Environment, file, alloc, plugins, pluginsNil, CoreVars, pc,
                 PassVars, StoreVars>>

\* client.App() returns to a caller.
InvokeReturns(h) ==
  /\ UNCHANGED <<ops, stored>>
  /\ inApp[h] > 0
  /\ inApp' = [inApp EXCEPT ![h] = @ - 1]
  /\ UNCHANGED <<Environment, file, ManagerVars, CoreVars, pc, result,
                 PassVars, StoreVars, invoked, everInvoked>>

\* ----------------------------------------------------------- environment
\* An executable is replaced or removed between two manager calls.
EnvSetFile(p, c) ==
  /\ CountOp
  /\ UNCHANGED stored
  /\ Quiet
  /\ pc = "idle"
  /\ fs[p] # c
  /\ fs' = [fs EXCEPT ![p] = c]
  /\ result' = NoResult
  /\ UNCHANGED <<numCPU, testingMode, file, ManagerVars, CoreVars, pc,
                 PassVars, StoreVars, CallerVars>>

\* Something else writes or removes the manifest file.
EnvWriteFile(f) ==
  /\ CountOp
  /\ stored' = NotStored
  /\ Quiet
  /\ pc = "idle"
  /\ file # f
  /\ file' = f
  /\ result' = NoResult
  /\ UNCHANGED <<Environment, ManagerVars, CoreVars, pc, PassVars, StoreVars,
                 CallerVars>>

\* The process ends (or has crashed) and the host starts again: the files
\* stay, everything in memory is new.
Restart ==
  /\ UNCHANGED <<ops, stored>>
  /\ Quiet
  /\ pc \in {"idle", "crashed"}
  /\ alloc > 0 \/ ~pluginsNil \/ ~coreNil
  /\ coreApps' = NoApps
  /\ coreNil' = TRUE
  /\ heap' = [h \in Ids |-> ZeroPlugin]
  /\ alloc' = 0
  /\ plugins' = <<>>
  /\ pluginsNil' = TRUE
  /\ pc' = "idle"
  /\ result' = NoResult
  /\ w' = [h \in Ids |-> "none"]
  /\ permits' = 0
  /\ lock' = FALSE
  /\ merr' = <<>>
  /\ seen' = [h \in Ids |-> <<>>]
  /\ loadFailed' = {}
  /\ err' = "nil"
  /\ used' = <<>>
  /\ inApp' = [h \in Ids |-> 0]
  /\ attempts' = [h \in Ids |-> 0]
  /\ hashFailed' = FALSE
  /\ fileAtCall' = NoFile
  /\ invoked' = {}
  /\ everInvoked' = {}
  /\ UNCHANGED <<Environment, file>>

Next ==
  \/ Discover
  \/ LoadAll
  \/ LoadAllReturns
  \/ LoadUsed
  \/ StoreUsed
  \/ StoreUsedReturns
  \/ \E core \in Cores : ConfigureCore(core)
  \/ \E h \in Ids : Acquire(h)
  \/ \E h \in Ids : LoadReturns(h)
  \/ \E h \in Ids : CalcMD5Returns(h)
  \/ \E h \in Ids : Lock(h)
  \/ \E h \in Ids : AppendError(h)
  \/ \E h \in Ids : Invoke(h)
  \/ \E h \in Ids : InvokeReturns(h)
  \/ \E p \in Paths : \E c \in FileStates(p) : EnvSetFile(p, c)
  \/ \E f \in EnvFiles : EnvWriteFile(f)
  \/ Restart

Spec == Init /\ [][Next]_vars

\* Scheduling: a goroutine that can take its next step takes it (the Go
\* scheduler runs every runnable goroutine), every Load and CalcMD5 that
\* was started returns, and a call whose Wait is over returns.  Callers
\* and the environment are under no obligation.
Fairness ==
  /\ \A h \in Ids : /\ WF_vars(Acquire(h))
                     /\ WF_vars(LoadReturns(h))
                     /\ WF_vars(CalcMD5Returns(h))
                     /\ WF_vars(Lock(h))
                     /\ WF_vars(AppendError(h))
  /\ WF_vars(LoadAllReturns)
  /\ WF_vars(StoreUsedReturns)

FairSpec == Spec /\ Fairness


\* ==================================================================
\* Properties
\* ==================================================================
\* A step that is the call of manager operation `op`.
IsCall(op) == pc = "idle" /\ ops' = ops + 1 /\ result'.op = op
\* A step in which the pass of `op` ends and the call returns.
IsReturn(op) == pc = op /\ pc' = "idle"
\* A step inside one process (Restart is the only step that frees objects).
SameProcess == alloc' >= alloc

Max(S) == CHOOSE x \in S : \A y \in S : y <= x
Running == {h \in Ids : w[h] = "running"}
Loaded(h) == heap[h].App > 0 /\ heap[h].AppMeta # NilMeta

\* ------------------------------------------------------------------ C1
\* C1: when a CalcMD5 of the pass failed, StoreUsed returns an error and
\* the manifest file is what it was when StoreUsed was called.
C1_HashFailureAbortsStore ==
  [][(IsReturn("StoreUsed") /\ hashFailed)
       => (result'.err # "nil" /\ file' = fileAtCall)]_vars

\* ------------------------------------------------------------------ C2
\* C2: when LoadAll returns, Load has been started exactly once for every
\* Plugin of m.plugins and for no other, whatever each Load returned, and
\* every one of those goroutines has finished.
C2_EveryHandleLoadedOnce ==
  [][IsReturn("LoadAll")
       => /\ \A h \in Ids : IF h \in Range(plugins)
                              THEN attempts[h] = 1 /\ w[h] = "done"
                              ELSE attempts[h] = 0
          /\ Sum(attempts, MaxObjs) = Len(plugins)]_vars

\* LoadAll is about to return after one Load succeeded and one failed.
C2_Witness ==
  /\ pc = "LoadAll"
  /\ AllDone
  /\ Len(plugins) = 2
  /\ Len(merr) = 1
  /\ \E h \in Range(plugins) : heap[h].App = 1

\* ------------------------------------------------------------------ C3
\* C3: in both passes the goroutines inside Load or CalcMD5 are never more
\* than NumCPU, and no permit is handed out that the semaphore has not.
C3_PermitBound ==
  /\ Cardinality(Running) <= numCPU
  /\ permits >= 0

\* More Plugins than permits: one goroutine hashes, another waits in
\* Acquire for the only permit.
C3_Witness ==
  /\ pc = "StoreUsed"
  /\ permits = 0
  /\ \E h, g \in Ids : w[h] = "running" /\ w[g] = "waiting"

\* ------------------------------------------------------------------ C4
\* C4 as stated: within a process, used never goes from true to false.
C4_UsedMonotonic ==
  [][SameProcess => \A h \in Ids : heap[h].used => heap'[h].used]_vars

\* C4 amended: within a process, used goes from true to false only in the
\* step in which a Load of that Plugin succeeds (line 114), which also
\* installs a new factory.
C4_UsedResetOnlyByLoad ==
  [][SameProcess =>
       \A h \in Ids :
         (heap[h].used /\ ~heap'[h].used)
           => /\ pc = "LoadAll"
              /\ w[h] = "running"
              /\ w'[h] = "done"
              /\ heap'[h].App = heap[h].App + 1]_vars

\* A Plugin whose factory was invoked has been loaded again and is unused.
C4_Witness ==
  \E h \in Ids : h \in everInvoked /\ heap[h].App = 2 /\ ~heap[h].used

\* ------------------------------------------------------------------ C5
\* C5: right after LoadAll with no factory invoked yet every Plugin is
\* unused; a Plugin whose factory has been invoked since it was loaded is
\* used, however many callers are inside the factory; a Plugin whose
\* factory was never invoked is unused.
C5_UsedTracksInvocation ==
  /\ (pc = "idle" /\ result.op \in {"LoadAll", "LoadUsed"} /\ everInvoked = {})
       => \A h \in Ids : ~Used(heap[h])
  /\ \A h \in Ids : h \in invoked => Used(heap[h])
  /\ \A h \in Ids : Used(heap[h]) => h \in everInvoked

\* Two callers are inside the factory of one Plugin at once; another
\* loaded Plugin has not been invoked.
C5_Witness ==
  \E h, g \in Range(plugins) :
    /\ inApp[h] = 2
    /\ Used(heap[h])
    /\ heap[g].App > 0
    /\ g \notin everInvoked
    /\ ~Used(heap[g])

\* ------------------------------------------------------------------ C6
\* C6: LoadUsed on a manifest whose version is greater than
\* usedPluginVersion returns the version error, leaves m.plugins and every
\* Plugin as they were, and starts no pass.
C6_VersionGate ==
  [][(IsCall("LoadUsed") /\ file.kind = "json"
        /\ file.version > usedPluginVersion)
       => /\ result'.err = "version"
          /\ plugins' = plugins
          /\ pluginsNil' = pluginsNil
          /\ heap' = heap
          /\ alloc' = alloc
          /\ pc' = "idle"
          /\ \A h \in Ids : w'[h] = "none" /\ attempts'[h] = 0]_vars

\* LoadUsed has just refused a newer manifest on a manager that holds two
\* discovered Plugins.
C6_Witness ==
  /\ result = [op |-> "LoadUsed", err |-> "version"]
  /\ file.version = usedPluginVersion + 1
  /\ Len(plugins) = 2

\* ------------------------------------------------------------------ C7
\* C7: LoadUsed, on a fresh manager, of the file a successful StoreUsed
\* wrote gives m.plugins the (path, args) pairs of the Plugins that were
\* used at store time, in order, each with a non-empty MD5.
C7_RoundTrip ==
  [][(IsCall("LoadUsed") /\ stored.ok /\ pluginsNil /\ alloc = 0)
       => /\ pc' = "LoadAll"
          /\ Pairs(heap', plugins') = stored.pairs
          /\ \A i \in 1..Len(plugins') : heap'[plugins'[i]].MD5 # NoMD5]_vars

\* ------------------------------------------------------------------ C8
\* The indices of m.plugins whose Plugin is used, and the k-th of them.
UsedIdx == {i \in 1..Len(plugins) : Used(heap[plugins[i]])}
KthUsed(k) ==
  CHOOSE i \in UsedIdx : Cardinality({j \in UsedIdx : j <= i}) = k

\* C8: the manifest a successful StoreUsed writes has version
\* usedPluginVersion and lists exactly the used Plugins of m.plugins, in
\* the order of m.plugins.
C8_ManifestIsUsedSubsequence ==
  [][(IsReturn("StoreUsed") /\ result'.err = "nil")
       => /\ file'.kind = "json"
          /\ file'.version = usedPluginVersion
          /\ ~file'.null
          /\ Len(file'.plugins) = Cardinality(UsedIdx)
          /\ \A k \in 1..Cardinality(UsedIdx) :
               /\ file'.plugins[k].path = heap[plugins[KthUsed(k)]].Path
               /\ file'.plugins[k].args = heap[plugins[KthUsed(k)]].Args]_vars

\* StoreUsed has just written a manifest of one Plugin for a manager that
\* holds two, the second of which is the used one.
C8_Witness ==
  /\ pc = "idle"
  /\ result = [op |-> "StoreUsed", err |-> "nil"]
  /\ Len(plugins) = 2
  /\ UsedIdx = {2}
  /\ Len(file.plugins) = 1
  /\ file.plugins[1].args = heap[plugins[2]].Args

\* ------------------------------------------------------------------ C9
\* The table ConfigureCore should leave when passed `core`: under every
\* tuple the factory of the last loaded Plugin declaring it, else what
\* core had.
LoadedDeclaring(t) ==
  {i \in 1..Len(plugins) :
     Loaded(plugins[i]) /\ t \in Range(heap[plugins[i]].AppMeta)}
TableFor(core) ==
  [t \in Tuples |-> IF LoadedDeclaring(t) = {} THEN core.apps[t]
                    ELSE FactoryOf(heap, plugins[Max(LoadedDeclaring(t))])]

\* C9: ConfigureCore called right after a LoadAll that reported failures
\* returns without error or panic and installs the factories of the loaded
\* Plugins only.
C9_ConfigureCoreAfterFailures ==
  [][(IsCall("ConfigureCore") /\ result.op \in {"LoadAll", "LoadUsed"}
        /\ result.err = "multi")
       => /\ result'.err = "nil"
          /\ pc' = "idle"
          /\ \E core \in Cores : coreApps' = TableFor(core)]_vars

\* ------------------------------------------------------------------ C10
\* C10: when ConfigureCore returns, every tuple some Plugin of m.plugins
\* declares holds the factory of the last Plugin declaring it, also where
\* the core passed in had an entry; the other tuples hold what the core
\* had.
C10_LastDeclaringWins ==
  [][(IsCall("ConfigureCore") /\ result'.err = "nil")
       => \E core \in Cores : coreApps' = TableFor(core)]_vars

\* ConfigureCore has returned for two loaded Plugins that both declare T1,
\* on a core the host had filled: T1 holds the second Plugin's factory.
C10_Witness ==
  /\ pc = "idle"
  /\ result = [op |-> "ConfigureCore", err |-> "nil"]
  /\ Len(plugins) = 2
  /\ \A i \in 1..2 : Loaded(plugins[i]) /\ "T1" \in Range(heap[plugins[i]].AppMeta)
  /\ coreApps["T3"] = ExtFactory
  /\ coreApps["T1"] = FactoryOf(heap, plugins[2])

\* ------------------------------------------------------------------ C11
\* C11: a Load of a Plugin whose MD5 is set succeeds only when the hash of
\* the file now at its Path equals that MD5.
C11_HashVerifiedOnLoad ==
  [][\A h \in Ids :
       (pc = "LoadAll" /\ w[h] = "running" /\ w'[h] = "done"
          /\ heap[h].MD5 # NoMD5)
         => /\ fs[heap[h].Path] \in Contents
            /\ HexMD5(fs[heap[h].Path]) = heap[h].MD5]_vars

\* ------------------------------------------------------------------ C12
\* C12: when LoadAll returns, it returns nil exactly when no Load of the
\* pass failed; merr holds exactly one entry for every Plugin whose Load
\* failed, whatever the order in which the goroutines appended; and every
\* Plugin whose Load succeeded has its AppMeta and its factory.
C12_FailuresAggregated ==
  [][IsReturn("LoadAll")
       => /\ (result'.err = "nil") <=> (loadFailed = {})
          /\ Len(merr) = Cardinality(loadFailed)
          /\ Range(merr) = loadFailed
          /\ \A h \in Range(plugins) \ loadFailed : Loaded(h)]_vars

\* Two Loads have failed: one goroutine holds merrLock with its append
\* pending while the other waits for the lock.
C12_Witness ==
  /\ pc = "LoadAll"
  /\ \E h, g \in Range(plugins) : w[h] = "locked" /\ w[g] = "failed"

\* ------------------------------------------------------------------ C13
\* C13: a Discover that returns nil, called in whatever state, leaves in
\* m.plugins what a Discover on a new manager would: as many Plugins as
\* the registry gives (none in testing mode), with the same paths and
\* arguments, none of them a Plugin of the list it replaced.
C13_DiscoverReplaces ==
  [][(IsCall("Discover") /\ result'.err = "nil")
       => /\ ~pluginsNil'
          /\ Len(plugins') = (IF testingMode THEN 0 ELSE Cardinality(PluginMap))
          /\ \E order \in DiscoverOrders(testingMode) :
               Pairs(heap', plugins')
                 = [i \in 1..Len(order) |->
                      <<DiscoverResult(order)[i].Path,
                        DiscoverResult(order)[i].Args>>]
          /\ Range(plugins') \cap Range(plugins) = {}
          /\ \A h \in Range(plugins) : heap'[h] = heap[h]]_vars

\* Discover has just returned on a manager that held two Plugins before:
\* it holds two again, and they are new objects.
C13_Witness ==
  /\ pc = "idle"
  /\ result = [op |-> "Discover", err |-> "nil"]
  /\ Len(plugins) = Cardinality(PluginMap)
  /\ alloc = 2 * Cardinality(PluginMap)
  /\ \A i \in 1..Len(plugins) : plugins[i] > Cardinality(PluginMap)

\* ------------------------------------------------------------------ C14
\* A step in which Discover stores a list: a call of Discover that returns
\* nil, or a LoadAll that finds m.plugins nil and goes on to its pass.
DiscoverStored ==
  \/ IsCall("Discover") /\ result'.err = "nil"
  \/ IsCall("LoadAll") /\ pluginsNil /\ pc' = "LoadAll"

\* C14: outside testing mode the list Discover stores has exactly one
\* Plugin per key of PluginMap, with Path the executable, Args
\* ["plugin-builtin", key], no MD5, unused, App and AppMeta nil; in testing
\* mode the list is empty and not nil.
C14_DiscoverResult ==
  [][DiscoverStored
       => /\ ~pluginsNil'
          /\ testingMode => plugins' = <<>>
          /\ ~testingMode =>
               /\ Len(plugins') = Cardinality(PluginMap)
               /\ \A k \in PluginMap :
                    \E i \in 1..Len(plugins') :
                      heap'[plugins'[i]] =
                        [Path |-> ExePath, Args |-> <<"plugin-builtin", k>>,
                         MD5 |-> NoMD5, App |-> 0, AppMeta |-> NilMeta,
                         used |-> FALSE]]_vars

\* Outside testing mode Discover has returned the two built-in Plugins,
\* deploy first.
C14_Witness ==
  /\ pc = "idle"
  /\ result = [op |-> "Discover", err |-> "nil"]
  /\ ~testingMode
  /\ Len(plugins) = 2
  /\ heap[plugins[1]].Args = <<"plugin-builtin", "deploy">>
  /\ heap[plugins[2]].Args = <<"plugin-builtin", "build">>

\* ------------------------------------------------------------------ C15
\* C15: a LoadUsed that has read a manifest of a version it supports goes
\* on to load the Plugins the manifest lists, in that order, and no other:
\* nothing Discover would add is in m.plugins or in the pass, also when
\* the list is empty or absent.
C15_LoadUsedLoadsManifestOnly ==
  [][(IsCall("LoadUsed") /\ file.kind = "json"
        /\ ~VersionTooNew(file.version))
       => /\ Pairs(heap', plugins')
               = [i \in 1..Len(file.plugins) |->
                    <<file.plugins[i].path, file.plugins[i].args>>]
          /\ \A h \in Ids : w'[h] = "waiting" <=> h \in Range(plugins')]_vars

\* ------------------------------------------------------------------ C16
\* C16: m.plugins is nil when the process starts, stops being nil when a
\* Discover returns nil or a LoadUsed stores a manifest's list, and is nil
\* again only in a new process or when LoadUsed stores an absent list.
\* LoadAll called with m.plugins nil runs Discover: when that fails it
\* returns the error and starts no Load, otherwise its pass is over the
\* Plugins just discovered.  LoadAll called with m.plugins not nil
\* allocates nothing and its pass is over the list as it was.
C16_ImplicitDiscover ==
  [][/\ (IsCall("Discover") /\ result'.err = "nil") => ~pluginsNil'
     /\ (IsCall("LoadUsed") /\ pc' = "LoadAll") => ~pluginsNil'
     /\ (~pluginsNil /\ pluginsNil')
          => (alloc' = 0 \/ (IsCall("LoadUsed") /\ file.null))
     /\ IsCall("LoadAll") =>
          IF pluginsNil
            THEN \/ /\ result'.err = "exe"
                    /\ pc' = "idle"
                    /\ pluginsNil'
                    /\ heap' = heap
                    /\ \A h \in Ids : w'[h] = "none" /\ attempts'[h] = 0
                 \/ /\ result'.err = "pending"
                    /\ pc' = "LoadAll"
                    /\ ~pluginsNil'
                    /\ Range(plugins') = {h \in Ids : alloc < h /\ h <= alloc'}
                    /\ \A h \in Ids : w'[h] = "waiting" <=> h \in Range(plugins')
            ELSE /\ plugins' = plugins
                 /\ ~pluginsNil'
                 /\ alloc' = alloc
                 /\ heap' = heap
                 /\ pc' = "LoadAll"
                 /\ \A h \in Ids : w'[h] = "waiting" <=> h \in Range(plugins)]_vars

\* LoadAll has begun its pass over the two Plugins an earlier LoadUsed
\* put into m.plugins; no built-in Plugin has been discovered.
C16_Witness ==
  /\ pc = "LoadAll"
  /\ result.op = "LoadAll"
  /\ Len(plugins) = 2
  /\ alloc = 2
  /\ heap[plugins[1]].Path = ExtPath
  /\ \A h \in Range(plugins) : w[h] = "waiting"

\* ------------------------------------------------------------------ C17
\* C17 as stated: within a process App and AppMeta are nil until a Load of
\* the Plugin succeeds, and once set they never change.
C17_WriteOnce ==
  [][SameProcess =>
       \A h \in Ids :
         /\ heap'[h].App = 0 => heap'[h].AppMeta = NilMeta
         /\ heap[h].App # 0 => heap'[h].App = heap[h].App
         /\ heap[h].AppMeta # NilMeta => heap'[h].AppMeta = heap[h].AppMeta]_vars

\* C17 amended: within a process App and AppMeta are nil until a Load of
\* the Plugin succeeds, and only a Load of that Plugin changes them: a
\* Load that succeeds installs a new factory and the AppMeta it read, a
\* Load that fails leaves App and, when it failed at Meta(), stores the
\* nil AppMeta.
C17_SetOnlyByLoad ==
  [][SameProcess =>
       \A h \in Ids :
         /\ heap'[h].App = 0 => heap'[h].AppMeta = NilMeta
         /\ (heap'[h].App # heap[h].App \/ heap'[h].AppMeta # heap[h].AppMeta)
              => /\ pc = "LoadAll"
                 /\ w[h] = "running"
                 /\ \/ /\ w'[h] = "done"
                       /\ heap'[h].App = heap[h].App + 1
                       /\ heap'[h].AppMeta = MetaOf(heap[h].Args)
                    \/ /\ w'[h] = "failed"
                       /\ heap'[h].App = heap[h].App
                       /\ heap'[h].AppMeta = NilMeta]_vars

\* A Plugin that was loaded has been loaded again in a second LoadAll and
\* that Load failed at Meta(): it keeps its factory and has no AppMeta.
C17_Witness ==
  \E h \in Range(plugins) : heap[h].App = 1 /\ heap[h].AppMeta = NilMeta

\* ------------------------------------------------------------------ C18
\* C18: every pass ends: a goroutine waiting in Acquire gets its permit,
\* LoadAll and StoreUsed return once called, and when they return every
\* goroutine is done and every permit is back, whether the Loads or
\* CalcMD5s failed or not and however many Plugins there are for the
\* permits.
C18_PassCompletes ==
  /\ \A h \in Ids : (w[h] = "waiting") ~> (w[h] = "running")
  /\ (pc = "LoadAll") ~> (pc = "idle")
  /\ (pc = "StoreUsed") ~> (pc = "idle")
  /\ [][(IsReturn("LoadAll") \/ IsReturn("StoreUsed"))
         => /\ permits = numCPU
            /\ \A h \in Ids : w[h] \in {"none", "done"}]_vars

\* One permit for two Plugins: the first Load failed and its goroutine is
\* done, the second goroutine has the permit it gave back.
C18_Witness ==
  /\ pc = "LoadAll"
  /\ numCPU = 1
  /\ Len(plugins) = 2
  /\ permits = 0
  /\ \E h, g \in Range(plugins) :
       /\ w[h] = "done"
       /\ h \in loadFailed
       /\ w[g] = "running"

\* ------------------------------------------------------------------ C19
\* C19: LoadUsed on a path with no file, or with a file that does not
\* parse, returns that error at once: m.plugins and every Plugin are as
\* they were and no goroutine is started.
C19_ReadErrorAborts ==
  [][(IsCall("LoadUsed") /\ file.kind \in {"none", "garbage"})
       => /\ result'.err = (IF file.kind = "none" THEN "open" ELSE "parse")
          /\ pc' = "idle"
          /\ plugins' = plugins
          /\ pluginsNil' = pluginsNil
          /\ heap' = heap
          /\ alloc' = alloc
          /\ \A h \in Ids : w'[h] = "none" /\ attempts'[h] = 0]_vars

\* LoadUsed has just failed to parse the file, on a manager that holds two
\* discovered Plugins.
C19_Witness ==
  /\ pc = "idle"
  /\ result = [op |-> "LoadUsed", err |-> "parse"]
  /\ file = Garbage
  /\ Len(plugins) = 2

\* ------------------------------------------------------------------ C20
\* C20: the Plugins LoadUsed puts into m.plugins are unused; a StoreUsed
\* that returns nil in a process in which no factory has been invoked
\* writes an empty, non-null list; and every entry a StoreUsed writes is
\* the entry of a Plugin of m.plugins whose factory was invoked in this
\* process.
C20_UsedNotPersisted ==
  [][/\ (IsCall("LoadUsed") /\ pc' = "LoadAll")
          => \A h \in Range(plugins') : ~Used(heap'[h])
     /\ (IsReturn("StoreUsed") /\ result'.err = "nil")
          => /\ everInvoked = {} => (file'.plugins = <<>> /\ ~file'.null)
             /\ Len(file'.plugins)
                  <= Cardinality(everInvoked \cap Range(plugins))
             /\ \A k \in 1..Len(file'.plugins) :
                  \E h \in everInvoked \cap Range(plugins) :
                    file'.plugins[k] = MarshalPlugin(heap[h])]_vars

\* LoadUsed has installed the two Plugins of a manifest, no factory has
\* been invoked, and StoreUsed has written a manifest that lists nothing.
C20_Witness ==
  /\ pc = "idle"
  /\ result = [op |-> "StoreUsed", err |-> "nil"]
  /\ Len(plugins) = 2
  /\ heap[plugins[1]].Path = ExtPath
  /\ everInvoked = {}
  /\ file.kind = "json"
  /\ ~file.null
  /\ file.plugins = <<>>

====
